---- MODULE Spec2Model ----
(***************************************************************************)
(* Model of the hype-momentum engine of detector_hype (src/utils.py, the   *)
(* same functions are repeated in src/app.py): calculate_growth_metrics,   *)
(* calculate_trends_metrics, get_momentum_score, calculate_ihp and         *)
(* get_ihp_recommendation.                                                 *)
(*                                                                         *)
(* Numbers.  The code computes on Python floats.  A number is modelled as  *)
(* an exact fraction <<n, d>> in lowest terms (d > 0), so that equalities  *)
(* such as "score == 100.0" are decided by the arithmetic and not by a     *)
(* rounding convention.  A division by zero yields ZeroDivisionError, a    *)
(* value that every later arithmetic step keeps (the exception leaves the  *)
(* function, no number is produced).                                       *)
(***************************************************************************)
EXTENDS Integers, Sequences, FiniteSets, TLC

VARIABLES
    arg_recent,          \* get_momentum_score: argument recent_avg
    arg_historical,      \* get_momentum_score: argument historical_avg
    ret_score,           \* get_momentum_score: returned value (NoValue before the return)
    prev_call,           \* the previous get_momentum_score call, <<>> or <<record>>
    growth_data,         \* calculate_ihp: argument tiktok_metrics (None or dict)
    trends_ihp_metrics,  \* calculate_ihp: argument trends_metrics (None or dict)
    ihp_metrics,         \* calculate_ihp: returned dict (None before the return)
    recommendation,      \* get_ihp_recommendation: returned string ("" before the return)
    arg_ihp_total_score, \* get_ihp_recommendation: argument ihp_total_score
    df,                  \* calculate_growth_metrics: argument df, the caller's DataFrame
    df_trends,           \* calculate_trends_metrics: argument df_trends, the caller's DataFrame
    windows,             \* the aggregator's locals df_14d / df_60d (None when not computed)
    search_term,         \* main: the content of the search box, a sequence of characters
    time_value,          \* main: the Trends period of the selected option
    geo_value,           \* main: the content of the region box, a sequence of characters
    secrets,             \* st.secrets: None without a tiktok_api section, else [key, host]
    tiktok_response,     \* what the TikTok endpoint answers to a GET
    trends_env,          \* what Google Trends answers to the fetch under study ('today 3-m' in main)
    display_env,         \* main: what Google Trends answers to the display fetch
    videos,              \* fetch_tiktok_data: returned value (None before the return)
    trends_results_ihp,  \* fetch_google_trends: returned dict (None before the return)
    trends_results_display, \* main: the dict of the display fetch (None before it)
    calls,               \* the fetch calls and the outgoing requests made so far, in order
    warnings,            \* main: the missing-data warnings shown
    rendered,            \* main: the index card and recommendation shown (None when not shown)
    prev_run,            \* main: the index and label of the previous run, <<>> or <<record>>
    pc                   \* the function being executed, or which one has returned

vars == <<arg_recent, arg_historical, ret_score, prev_call,
          growth_data, trends_ihp_metrics, ihp_metrics, recommendation,
          arg_ihp_total_score, df, df_trends, windows,
          search_term, time_value, geo_value, secrets, tiktok_response,
          trends_env, display_env, videos, trends_results_ihp,
          trends_results_display, calls, warnings, rendered, prev_run, pc>>

momentum_vars == <<arg_recent, arg_historical, ret_score, prev_call>>
ihp_vars == <<growth_data, trends_ihp_metrics, ihp_metrics, recommendation>>
agg_vars == <<df, df_trends, windows>>
input_vars == <<search_term, time_value, geo_value>>
env_vars == <<secrets, tiktok_response, trends_env, display_env>>
main_vars == <<videos, trends_results_ihp, trends_results_display,
               calls, warnings, rendered, prev_run>>
app_vars == <<input_vars, env_vars, main_vars>>

----------------------------------------------------------------------------
(* Bounds of the model *)

MaxNum == 4          \* numerators of the averages given to get_momentum_score
MaxDen == 2          \* denominators of the averages given to get_momentum_score
MaxSocialAvg == 1    \* social averages given to calculate_ihp are 0..MaxSocialAvg
MaxTrendsAvg == 2    \* search averages given to calculate_ihp are 0..MaxTrendsAvg and 50
MaxVideos == 2       \* rows of the DataFrame given to calculate_growth_metrics
MaxObs == 3          \* rows of the DataFrame given to calculate_trends_metrics
MaxIndex == 200      \* whole indexes given to get_ihp_recommendation are 0..MaxIndex
MaxApiVideos == 2    \* videos in a response of the TikTok endpoint
MaxSeries == 2       \* observations in a series of Google Trends
MaxRunRows == 1      \* videos and observations answered to the fetches of one run of main

----------------------------------------------------------------------------
(* Exact arithmetic on fractions <<n, d>> *)

RECURSIVE GCD(_, _)
GCD(a, b) == IF b = 0 THEN a ELSE GCD(b, a % b)

ZeroDivisionError == <<0, 0>>

Rat(n, d) ==
    IF d = 0 THEN ZeroDivisionError
    ELSE IF n = 0 THEN <<0, 1>>
    ELSE LET g == GCD(n, d) IN <<n \div g, d \div g>>

RatAdd(a, b) == Rat(a[1] * b[2] + b[1] * a[2], a[2] * b[2])
RatMul(a, b) == Rat(a[1] * b[1], a[2] * b[2])
RatDiv(a, b) == IF b[1] = 0 THEN ZeroDivisionError ELSE Rat(a[1] * b[2], a[2] * b[1])
RatLE(a, b) == a[1] * b[2] <= b[1] * a[2]
RatLT(a, b) == a[1] * b[2] < b[1] * a[2]
RatMin(a, b) == IF RatLT(b, a) THEN b ELSE a
IsNumber(a) == a[2] > 0

----------------------------------------------------------------------------
(* Python values *)

None == [None |-> TRUE]
NoValue == <<>>
EmptyDict == <<>>

\* dict.get(key, default)
Get(dict, key, default) == IF key \in DOMAIN dict THEN dict[key] ELSE default

\* x or {}
OrEmptyDict(x) == IF x = None \/ DOMAIN x = {} THEN EmptyDict ELSE x

\* pandas: the missing timestamp; a timestamp on day d is <<d>>.
NaT == <<>>
Timestamp(d) == <<d>>

\* pandas: DataFrame() without rows or columns; a DataFrame is
\* [columns |-> set of names, rows |-> sequence of functions columns -> values].
EmptyDataFrame == [columns |-> {}, rows |-> <<>>]

\* The exception a DataFrame raises on df[name] when it has no such column.
KeyError == [KeyError |-> TRUE]

----------------------------------------------------------------------------
(* get_momentum_score (src/utils.py 194-210, src/app.py 425-441) *)

\* Faulty variant: the ratio is not capped at 2.0.
get_momentum_score_nocap(recent_avg, historical_avg) ==
    IF historical_avg[1] = 0
    THEN (IF RatLT(Rat(0, 1), recent_avg) THEN Rat(200, 1) ELSE Rat(0, 1))
    ELSE RatMul(RatDiv(recent_avg, historical_avg), Rat(100, 1))

\* Faulty variant: the cap is applied after the scaling instead of before it.
get_momentum_score_caplate(recent_avg, historical_avg) ==
    IF historical_avg[1] = 0
    THEN (IF RatLT(Rat(0, 1), recent_avg) THEN Rat(200, 1) ELSE Rat(0, 1))
    ELSE RatMin(RatMul(RatDiv(recent_avg, historical_avg), Rat(100, 1)), Rat(2, 1))

\* Faulty variant: a zero baseline always scores 0.0.
get_momentum_score_zerobase(recent_avg, historical_avg) ==
    IF historical_avg[1] = 0
    THEN Rat(0, 1)
    ELSE RatMul(RatMin(RatDiv(recent_avg, historical_avg), Rat(2, 1)), Rat(100, 1))

\* Faulty variant: the zero-baseline test is missing, the division is always made.
get_momentum_score_nozerotest(recent_avg, historical_avg) ==
    RatMul(RatMin(RatDiv(recent_avg, historical_avg), Rat(2, 1)), Rat(100, 1))

\* Faulty variant: the ratio is taken the wrong way round.
get_momentum_score_inverted(recent_avg, historical_avg) ==
    IF historical_avg[1] = 0
    THEN (IF RatLT(Rat(0, 1), recent_avg) THEN Rat(200, 1) ELSE Rat(0, 1))
    ELSE RatMul(RatMin(RatDiv(historical_avg, recent_avg), Rat(2, 1)), Rat(100, 1))

\* Faulty variant: the growth over the baseline is scored instead of the ratio.
get_momentum_score_growth(recent_avg, historical_avg) ==
    IF historical_avg[1] = 0
    THEN (IF RatLT(Rat(0, 1), recent_avg) THEN Rat(200, 1) ELSE Rat(0, 1))
    ELSE RatMul(RatAdd(RatMin(RatDiv(recent_avg, historical_avg), Rat(2, 1)), Rat(-1, 1)),
                Rat(100, 1))

\* Faulty variant: the ratio is capped at 1.5 instead of 2.0.
get_momentum_score_lowcap(recent_avg, historical_avg) ==
    IF historical_avg[1] = 0
    THEN (IF RatLT(Rat(0, 1), recent_avg) THEN Rat(200, 1) ELSE Rat(0, 1))
    ELSE RatMul(RatMin(RatDiv(recent_avg, historical_avg), Rat(3, 2)), Rat(100, 1))

\* Faulty variant: the zero-baseline test on recent is >= instead of >.
get_momentum_score_zeroge(recent_avg, historical_avg) ==
    IF historical_avg[1] = 0
    THEN (IF RatLE(Rat(0, 1), recent_avg) THEN Rat(200, 1) ELSE Rat(0, 1))
    ELSE RatMul(RatMin(RatDiv(recent_avg, historical_avg), Rat(2, 1)), Rat(100, 1))

get_momentum_score(recent_avg, historical_avg) ==
    IF historical_avg[1] = 0
    THEN (IF RatLT(Rat(0, 1), recent_avg) THEN Rat(200, 1) ELSE Rat(0, 1))
    ELSE LET ratio == RatDiv(recent_avg, historical_avg)
             capped_ratio == RatMin(ratio, Rat(2, 1))
             score == RatMul(capped_ratio, Rat(100, 1))
         IN score

----------------------------------------------------------------------------
(* calculate_ihp (src/utils.py 213-261, src/app.py 444-492) *)

\* The weights of lines 247-251, in hundredths (0.30, 0.25, 0.20, 0.15, 0.10).
WeightTrends == 30
WeightViews == 25
WeightLikes == 20
WeightComments == 15
WeightShares == 10

\* The weighted sum of lines 246-252 with the weights given in hundredths.
WeightedSum(T_m, wT, V_m, wV, L_m, wL, C_m, wC, S_m, wS) ==
    RatAdd(RatAdd(RatAdd(RatAdd(RatMul(T_m, Rat(wT, 100)),
                                RatMul(V_m, Rat(wV, 100))),
                         RatMul(L_m, Rat(wL, 100))),
                  RatMul(C_m, Rat(wC, 100))),
           RatMul(S_m, Rat(wS, 100)))

\* Faulty variant: an average that is not there counts as 1 in the recent
\* window, so a source without data scores 200 on each of its channels.
Momentums_defaultone(tiktok_metrics, trends_metrics) ==
    LET tm == OrEmptyDict(tiktok_metrics)
        trm == OrEmptyDict(trends_metrics)
    IN [trends_momentum |-> get_momentum_score(Get(trm, "trends_14d_avg", Rat(1, 1)),
                                               Get(trm, "trends_60d_avg", Rat(0, 1))),
        views_momentum |-> get_momentum_score(Get(tm, "views_14d_avg", Rat(1, 1)),
                                              Get(tm, "views_60d_avg", Rat(0, 1))),
        likes_momentum |-> get_momentum_score(Get(tm, "likes_14d_avg", Rat(1, 1)),
                                              Get(tm, "likes_60d_avg", Rat(0, 1))),
        comments_momentum |-> get_momentum_score(Get(tm, "comments_14d_avg", Rat(1, 1)),
                                                 Get(tm, "comments_60d_avg", Rat(0, 1))),
        shares_momentum |-> get_momentum_score(Get(tm, "shares_14d_avg", Rat(1, 1)),
                                               Get(tm, "shares_60d_avg", Rat(0, 1)))]

\* Faulty variant: the likes and comments scores are computed from each other's averages.
Momentums_crossed(tiktok_metrics, trends_metrics) ==
    LET tm == OrEmptyDict(tiktok_metrics)
        trm == OrEmptyDict(trends_metrics)
    IN [trends_momentum |-> get_momentum_score(Get(trm, "trends_14d_avg", Rat(0, 1)),
                                               Get(trm, "trends_60d_avg", Rat(0, 1))),
        views_momentum |-> get_momentum_score(Get(tm, "views_14d_avg", Rat(0, 1)),
                                              Get(tm, "views_60d_avg", Rat(0, 1))),
        likes_momentum |-> get_momentum_score(Get(tm, "comments_14d_avg", Rat(0, 1)),
                                              Get(tm, "comments_60d_avg", Rat(0, 1))),
        comments_momentum |-> get_momentum_score(Get(tm, "likes_14d_avg", Rat(0, 1)),
                                                 Get(tm, "likes_60d_avg", Rat(0, 1))),
        shares_momentum |-> get_momentum_score(Get(tm, "shares_14d_avg", Rat(0, 1)),
                                               Get(tm, "shares_60d_avg", Rat(0, 1)))]

\* The five momentum scores of lines 223-243.
Momentums(tiktok_metrics, trends_metrics) ==
    LET tm == OrEmptyDict(tiktok_metrics)
        views_14d_avg == Get(tm, "views_14d_avg", Rat(0, 1))
        views_60d_avg == Get(tm, "views_60d_avg", Rat(0, 1))
        likes_14d_avg == Get(tm, "likes_14d_avg", Rat(0, 1))
        likes_60d_avg == Get(tm, "likes_60d_avg", Rat(0, 1))
        comments_14d_avg == Get(tm, "comments_14d_avg", Rat(0, 1))
        comments_60d_avg == Get(tm, "comments_60d_avg", Rat(0, 1))
        shares_14d_avg == Get(tm, "shares_14d_avg", Rat(0, 1))
        shares_60d_avg == Get(tm, "shares_60d_avg", Rat(0, 1))
        trm == OrEmptyDict(trends_metrics)
        trends_14d_avg == Get(trm, "trends_14d_avg", Rat(0, 1))
        trends_60d_avg == Get(trm, "trends_60d_avg", Rat(0, 1))
    IN [trends_momentum |-> get_momentum_score(trends_14d_avg, trends_60d_avg),
        views_momentum |-> get_momentum_score(views_14d_avg, views_60d_avg),
        likes_momentum |-> get_momentum_score(likes_14d_avg, likes_60d_avg),
        comments_momentum |-> get_momentum_score(comments_14d_avg, comments_60d_avg),
        shares_momentum |-> get_momentum_score(shares_14d_avg, shares_60d_avg)]

\* Faulty variant: the weights of search interest and views are exchanged.
calculate_ihp_swapped(tiktok_metrics, trends_metrics) ==
    LET m == Momentums(tiktok_metrics, trends_metrics)
    IN [ihp_total_score |-> WeightedSum(m.trends_momentum, 25, m.views_momentum, 30,
                                        m.likes_momentum, 20, m.comments_momentum, 15,
                                        m.shares_momentum, 10),
        trends_momentum |-> m.trends_momentum,
        views_momentum |-> m.views_momentum,
        likes_momentum |-> m.likes_momentum,
        comments_momentum |-> m.comments_momentum,
        shares_momentum |-> m.shares_momentum]

\* Faulty variant: the weight of search interest is 0.35, the weights sum to 1.05.
calculate_ihp_overweight(tiktok_metrics, trends_metrics) ==
    LET m == Momentums(tiktok_metrics, trends_metrics)
    IN [ihp_total_score |-> WeightedSum(m.trends_momentum, 35, m.views_momentum, 25,
                                        m.likes_momentum, 20, m.comments_momentum, 15,
                                        m.shares_momentum, 10),
        trends_momentum |-> m.trends_momentum,
        views_momentum |-> m.views_momentum,
        likes_momentum |-> m.likes_momentum,
        comments_momentum |-> m.comments_momentum,
        shares_momentum |-> m.shares_momentum]

\* Faulty variant: the weights of the available source are renormalised to sum to 1.
calculate_ihp_renormalised(tiktok_metrics, trends_metrics) ==
    LET m == Momentums(tiktok_metrics, trends_metrics)
        total == WeightedSum(m.trends_momentum, 30, m.views_momentum, 25,
                             m.likes_momentum, 20, m.comments_momentum, 15,
                             m.shares_momentum, 10)
        available == (IF trends_metrics = None THEN 0 ELSE 30)
                     + (IF tiktok_metrics = None THEN 0 ELSE 70)
    IN [ihp_total_score |-> IF available = 0 THEN total
                            ELSE RatDiv(total, Rat(available, 100)),
        trends_momentum |-> m.trends_momentum,
        views_momentum |-> m.views_momentum,
        likes_momentum |-> m.likes_momentum,
        comments_momentum |-> m.comments_momentum,
        shares_momentum |-> m.shares_momentum]

calculate_ihp(tiktok_metrics, trends_metrics) ==
    LET m == Momentums(tiktok_metrics, trends_metrics)
        T_m == m.trends_momentum
        V_m == m.views_momentum
        L_m == m.likes_momentum
        C_m == m.comments_momentum
        S_m == m.shares_momentum
        ihp_total_score == WeightedSum(T_m, WeightTrends, V_m, WeightViews, L_m, WeightLikes,
                                       C_m, WeightComments, S_m, WeightShares)
    IN [ihp_total_score |-> ihp_total_score,
        trends_momentum |-> T_m,
        views_momentum |-> V_m,
        likes_momentum |-> L_m,
        comments_momentum |-> C_m,
        shares_momentum |-> S_m]

----------------------------------------------------------------------------
(* get_ihp_recommendation (src/utils.py 264-278, src/app.py 495-509).      *)
(* The returned strings are the source's, written in ASCII.                *)

\* Faulty variant: the lower bounds of the bands are exclusive.
get_ihp_recommendation_exclusive(ihp_total_score) ==
    IF RatLT(Rat(150, 1), ihp_total_score) THEN "Viral - tendencia explosiva"
    ELSE IF RatLT(Rat(100, 1), ihp_total_score) THEN "Em alta - hype crescendo"
    ELSE IF RatLT(Rat(60, 1), ihp_total_score) THEN "Estavel - atencao sustentada"
    ELSE "Interesse em queda - produto esfriando"

get_ihp_recommendation(ihp_total_score) ==
    IF RatLE(Rat(150, 1), ihp_total_score) THEN "Viral - tendencia explosiva"
    ELSE IF RatLE(Rat(100, 1), ihp_total_score) THEN "Em alta - hype crescendo"
    ELSE IF RatLE(Rat(60, 1), ihp_total_score) THEN "Estavel - atencao sustentada"
    ELSE "Interesse em queda - produto esfriando"

----------------------------------------------------------------------------
(* The window aggregators calculate_growth_metrics (src/utils.py 124-162,  *)
(* src/app.py 352-390) and calculate_trends_metrics (src/utils.py 165-192, *)
(* src/app.py 393-420).  Time is counted in whole days.                    *)

\* datetime.now(), as a day number.
datetime_now == 100

\* timedelta(days=14) and timedelta(days=60).
RecentDays == 14
HistoricalDays == 60

\* df.empty
Empty(df_in) == Len(df_in.rows) = 0 \/ df_in.columns = {}

\* Faulty variant: a missing timestamp passes the comparison.
InWindow_nat(t, start) == t = NaT \/ t[1] >= start

\* series >= start for one value: a comparison with NaT is False.
InWindow(t, start) == t # NaT /\ t[1] >= start

\* Faulty variant: the historical window ends where the recent one starts.
Windows_disjoint(rows, col, today) ==
    LET start_14d == today - RecentDays
        start_60d == today - HistoricalDays
    IN [df_14d |-> {i \in DOMAIN rows : InWindow(rows[i][col], start_14d)},
        df_60d |-> {i \in DOMAIN rows : /\ InWindow(rows[i][col], start_60d)
                                          /\ ~InWindow(rows[i][col], start_14d)}]

\* df[df[col] >= start_14d] and df[df[col] >= start_60d], as sets of row labels.
Windows(rows, col, today) ==
    LET start_14d == today - RecentDays
        start_60d == today - HistoricalDays
    IN [df_14d |-> {i \in DOMAIN rows : InWindow(rows[i][col], start_14d)},
        df_60d |-> {i \in DOMAIN rows : InWindow(rows[i][col], start_60d)}]

\* series.sum() over the rows idx.
RECURSIVE SumOver(_, _, _)
SumOver(rows, idx, col) ==
    IF idx = {} THEN 0
    ELSE LET i == CHOOSE j \in idx : TRUE
         IN rows[i][col] + SumOver(rows, idx \ {i}, col)

\* df_w[col].sum() if col in df_w.columns else 0
SumIfPresent(df_in, idx, col) ==
    IF col \in df_in.columns THEN SumOver(df_in.rows, idx, col) ELSE 0

\* series.mean() over the rows idx (the callers test idx for emptiness first).
Mean(rows, idx, col) == Rat(SumOver(rows, idx, col), Cardinality(idx))

\* Faulty variant: the 60-day sums are divided by 14 like the 14-day sums.
GrowthDict_samedivisor(v14, v60, l14, l60, c14, c60, s14, s60) ==
    [views_14d_avg |-> Rat(v14, RecentDays),
     views_60d_avg |-> Rat(v60, RecentDays),
     likes_14d_avg |-> Rat(l14, RecentDays),
     likes_60d_avg |-> Rat(l60, RecentDays),
     comments_14d_avg |-> Rat(c14, RecentDays),
     comments_60d_avg |-> Rat(c60, RecentDays),
     shares_14d_avg |-> Rat(s14, RecentDays),
     shares_60d_avg |-> Rat(s60, RecentDays)]

\* The dict of lines 153-162 from the eight sums.
GrowthDict(v14, v60, l14, l60, c14, c60, s14, s60) ==
    [views_14d_avg |-> Rat(v14, RecentDays),
     views_60d_avg |-> Rat(v60, HistoricalDays),
     likes_14d_avg |-> Rat(l14, RecentDays),
     likes_60d_avg |-> Rat(l60, HistoricalDays),
     comments_14d_avg |-> Rat(c14, RecentDays),
     comments_60d_avg |-> Rat(c60, HistoricalDays),
     shares_14d_avg |-> Rat(s14, RecentDays),
     shares_60d_avg |-> Rat(s60, HistoricalDays)]

\* Faulty variant: the sums are divided by the number of samples in the window.
calculate_growth_metrics_mean(df_in) ==
    IF Empty(df_in) \/ "create_time" \notin df_in.columns \/ "play_count" \notin df_in.columns
    THEN [ret |-> None, df |-> df_in, windows |-> None]
    ELSE LET w == Windows(df_in.rows, "create_time", datetime_now)
             n14 == Cardinality(w.df_14d)
             n60 == Cardinality(w.df_60d)
             Avg(idx, col, n) == IF n = 0 THEN Rat(0, 1)
                                 ELSE Rat(SumIfPresent(df_in, idx, col), n)
         IN [ret |-> [views_14d_avg |-> Avg(w.df_14d, "play_count", n14),
                      views_60d_avg |-> Avg(w.df_60d, "play_count", n60),
                      likes_14d_avg |-> Avg(w.df_14d, "digg_count", n14),
                      likes_60d_avg |-> Avg(w.df_60d, "digg_count", n60),
                      comments_14d_avg |-> Avg(w.df_14d, "comment_count", n14),
                      comments_60d_avg |-> Avg(w.df_60d, "comment_count", n60),
                      shares_14d_avg |-> Avg(w.df_14d, "share_count", n14),
                      shares_60d_avg |-> Avg(w.df_60d, "share_count", n60)],
             df |-> df_in, windows |-> w]

\* calculate_growth_metrics: ret is the returned value, df the caller's
\* DataFrame after the call, windows the locals df_14d / df_60d.
calculate_growth_metrics(df_in) ==
    IF Empty(df_in) \/ "create_time" \notin df_in.columns \/ "play_count" \notin df_in.columns
    THEN [ret |-> None, df |-> df_in, windows |-> None]
    ELSE LET today == datetime_now
             w == Windows(df_in.rows, "create_time", today)
             df_14d == w.df_14d
             df_60d == w.df_60d
             views_sum_14d == SumOver(df_in.rows, df_14d, "play_count")
             views_sum_60d == SumOver(df_in.rows, df_60d, "play_count")
             likes_sum_14d == SumIfPresent(df_in, df_14d, "digg_count")
             likes_sum_60d == SumIfPresent(df_in, df_60d, "digg_count")
             comments_sum_14d == SumIfPresent(df_in, df_14d, "comment_count")
             comments_sum_60d == SumIfPresent(df_in, df_60d, "comment_count")
             shares_sum_14d == SumIfPresent(df_in, df_14d, "share_count")
             shares_sum_60d == SumIfPresent(df_in, df_60d, "share_count")
         IN [ret |-> GrowthDict(views_sum_14d, views_sum_60d, likes_sum_14d, likes_sum_60d,
                                comments_sum_14d, comments_sum_60d,
                                shares_sum_14d, shares_sum_60d),
             df |-> df_in, windows |-> w]

\* df_trends['date_only'] = pd.to_datetime(df_trends['date']).dt.date : the
\* caller's DataFrame gains the column date_only (the day of each date).
WithDateOnly(df_in) ==
    [columns |-> df_in.columns \cup {"date_only"},
     rows |-> [i \in DOMAIN df_in.rows |->
                 [c \in df_in.columns \cup {"date_only"} |->
                     IF c = "date_only" THEN df_in.rows[i]["date"] ELSE df_in.rows[i][c]]]]

\* Faulty variant: the window sums are divided by the fixed 14 and 60.
calculate_trends_metrics_sumdiv(df_in) ==
    IF df_in = None THEN [ret |-> None, df_trends |-> df_in, windows |-> None]
    ELSE IF Empty(df_in) THEN [ret |-> None, df_trends |-> df_in, windows |-> None]
    ELSE IF "date" \notin df_in.columns
    THEN [ret |-> KeyError, df_trends |-> df_in, windows |-> None]
    ELSE LET after == WithDateOnly(df_in)
             w == Windows(after.rows, "date_only", datetime_now)
         IN IF "interest" \notin after.columns /\ w.df_60d # {}
            THEN [ret |-> KeyError, df_trends |-> after, windows |-> w]
            ELSE [ret |-> [trends_14d_avg |-> Rat(SumIfPresent(after, w.df_14d, "interest"),
                                                  RecentDays),
                           trends_60d_avg |-> Rat(SumIfPresent(after, w.df_60d, "interest"),
                                                  HistoricalDays)],
                  df_trends |-> after, windows |-> w]

\* calculate_trends_metrics: ret is the returned value or the exception
\* raised, df_trends the caller's DataFrame after the call, windows the locals.
calculate_trends_metrics(df_in) ==
    IF df_in = None THEN [ret |-> None, df_trends |-> df_in, windows |-> None]
    ELSE IF Empty(df_in) THEN [ret |-> None, df_trends |-> df_in, windows |-> None]
    ELSE IF "date" \notin df_in.columns
    THEN [ret |-> KeyError, df_trends |-> df_in, windows |-> None]
    ELSE LET today == datetime_now
             after == WithDateOnly(df_in)
             w == Windows(after.rows, "date_only", today)
             df_14d == w.df_14d
             df_60d == w.df_60d
         IN IF "interest" \notin after.columns /\ (df_14d # {} \/ df_60d # {})
            THEN [ret |-> KeyError, df_trends |-> after, windows |-> w]
            ELSE LET trends_14d_avg == IF df_14d # {} THEN Mean(after.rows, df_14d, "interest")
                                       ELSE Rat(0, 1)
                     trends_60d_avg == IF df_60d # {} THEN Mean(after.rows, df_60d, "interest")
                                       ELSE Rat(0, 1)
                 IN [ret |-> [trends_14d_avg |-> trends_14d_avg,
                              trends_60d_avg |-> trends_60d_avg],
                     df_trends |-> after, windows |-> w]

----------------------------------------------------------------------------
(* fetch_tiktok_data (src/utils.py 14-50, src/app.py 24-30 and 266-295) *)

\* A Python list with the items of the sequence s.
List(s) == [list |-> s]

\* bool(x) for x None or a list.
Truthy(x) == x # None /\ Len(x.list) > 0

\* The exceptions of the try block; the first set is what
\* requests.exceptions.RequestException covers, both are Exceptions.
RequestException == {"ConnectionError", "Timeout", "HTTPError", "JSONDecodeError"}
Exception == RequestException \cup {"AttributeError", "KeyError", "ValueError",
                                    "ResponseError"}

\* A call that raised: the exception leaves the function.
Raise(e) == [raise |-> e]
Raised(x) == DOMAIN x = {"raise"}

\* Lines 39-45 of utils.py (284-289 of app.py): the body of the try block.
\* The result is the returned value or the exception raised in the block.
TryRequest(response) ==
    IF response.kind # "json" THEN Raise(response.kind)
    ELSE LET data == response.body
         IN IF DOMAIN data = {"list"} THEN Raise("AttributeError")
            ELSE IF ~("code" \in DOMAIN data /\ data["code"] = 0) THEN List(<<>>)
            ELSE IF "data" \notin DOMAIN data THEN List(<<>>)
            ELSE IF data["data"] = None THEN Raise("AttributeError")
            ELSE IF Truthy(Get(data["data"], "videos", None)) THEN data["data"]["videos"]
            ELSE List(<<>>)

\* Lines 34-50 of utils.py (278-295 of app.py): the request and its two
\* handlers.  calls are the requests sent.
HandleRequest(term, response) ==
    LET r == TryRequest(response)
        request == <<[call |-> "requests.get", term |-> term]>>
    IN IF Raised(r) /\ r.raise \in RequestException
       THEN [ret |-> None, calls |-> request]
       ELSE IF Raised(r) /\ r.raise \in Exception
       THEN [ret |-> None, calls |-> request]
       ELSE [ret |-> r, calls |-> request]

\* fetch_tiktok_data of utils.py: the keys are read inside the function.
fetch_tiktok_data(term, st_secrets, response) ==
    IF st_secrets = None THEN [ret |-> None, calls |-> <<>>]
    ELSE LET API_KEY == st_secrets.key
             TIKTOK_HOST == st_secrets.host
         IN IF API_KEY = "" \/ TIKTOK_HOST = "dummy_host" \/ API_KEY = "dummy_key"
            THEN [ret |-> None, calls |-> <<>>]
            ELSE HandleRequest(term, response)

\* The module-level keys of app.py (lines 24-30).
API_KEY(st_secrets) == IF st_secrets = None THEN "dummy_key" ELSE st_secrets.key
TIKTOK_HOST(st_secrets) == IF st_secrets = None THEN "dummy_host" ELSE st_secrets.host

\* fetch_tiktok_data of app.py: the keys are the module-level ones.
app_fetch_tiktok_data(term, st_secrets, response) ==
    IF API_KEY(st_secrets) = "" \/ TIKTOK_HOST(st_secrets) = "dummy_host"
    THEN [ret |-> None, calls |-> <<>>]
    ELSE HandleRequest(term, response)

----------------------------------------------------------------------------
(* fetch_google_trends (src/utils.py 53-100, src/app.py 298-347) *)

\* The column pytrends names after the requested keyword.
KeywordColumn == "<keyword>"

\* The two dicts with the key 'error' (lines 72 and 100).
NoDataError == [error |-> "no data"]
PyTrendsError == [error |-> "pytrends"]

\* series.max() over all rows of a non-empty frame.
RECURSIVE MaxOver(_, _, _)
MaxOver(rows, n, col) ==
    IF n = 1 THEN rows[1][col]
    ELSE LET m == MaxOver(rows, n - 1, col)
         IN IF rows[n][col] > m THEN rows[n][col] ELSE m

\* Lines 74-77: isPartial dropped, the remaining column renamed to interest,
\* the index made the column date.  Assigning one name to another number of
\* columns raises ValueError.
RenameAndReset(df_time) ==
    LET kept == df_time.columns \ {"isPartial"}
    IN IF Cardinality(kept) # 1 THEN Raise("ValueError")
       ELSE LET col == CHOOSE c \in kept : TRUE
            IN [columns |-> {"date", "interest"},
                rows |-> [i \in DOMAIN df_time.rows |->
                            [date |-> df_time.rows[i]["date"],
                             interest |-> df_time.rows[i][col]]]]

\* sort_values(by='interest', ascending=False) on the rows of a frame.
RECURSIVE SortDescending(_)
SortDescending(rows) ==
    IF Len(rows) <= 1 THEN rows
    ELSE LET i == CHOOSE j \in DOMAIN rows :
                     \A k \in DOMAIN rows :
                         \/ rows[j].interest > rows[k].interest
                         \/ (rows[j].interest = rows[k].interest /\ j <= k)
             rest == [k \in 1..(Len(rows) - 1) |-> IF k < i THEN rows[k] ELSE rows[k + 1]]
         IN <<rows[i]>> \o SortDescending(rest)

\* Lines 83-86: the by-region frame renamed, sorted and indexed by region.
RegionFrame(df_region) ==
    IF Empty(df_region) THEN df_region
    ELSE [columns |-> {"interest"},
          rows |-> SortDescending([i \in DOMAIN df_region.rows |->
                      [Regiao |-> df_region.rows[i]["geoName"],
                       interest |-> df_region.rows[i][KeywordColumn]]])]

\* The requests fetch_google_trends can send.
PayloadCall(term, time_period, geo) ==
    [call |-> "pytrends.build_payload", term |-> term, timeframe |-> time_period, geo |-> geo]
OverTimeCall == [call |-> "pytrends.interest_over_time"]
ByRegionCall == [call |-> "pytrends.interest_by_region"]
RelatedCall == [call |-> "pytrends.related_queries"]

\* related_queries.get(term, {}).get(name, pd.DataFrame())
RelatedGet(related_queries, name) ==
    IF KeywordColumn \notin DOMAIN related_queries THEN EmptyDataFrame
    ELSE IF related_queries[KeywordColumn] = None THEN Raise("AttributeError")
    ELSE Get(related_queries[KeywordColumn], name, EmptyDataFrame)

\* Faulty variant: a series whose maximum is 0 is returned as data.
TryTrends_nomaxtest(term, time_period, geo, env) ==
    LET c1 == <<PayloadCall(term, time_period, geo)>>
        c2 == c1 \o <<OverTimeCall>>
    IN IF Raised(env.payload) THEN [ret |-> env.payload, calls |-> c1]
       ELSE IF Raised(env.over_time) THEN [ret |-> env.over_time, calls |-> c2]
       ELSE IF Empty(env.over_time) \/ KeywordColumn \notin env.over_time.columns
       THEN [ret |-> NoDataError, calls |-> c2]
       ELSE LET df_time == RenameAndReset(env.over_time)
                c3 == IF Len(geo) <= 2 THEN c2 \o <<ByRegionCall>> ELSE c2
                c4 == c3 \o <<RelatedCall>>
            IN IF Raised(df_time) THEN [ret |-> df_time, calls |-> c2]
               ELSE IF Len(geo) <= 2 /\ Raised(env.by_region)
               THEN [ret |-> env.by_region, calls |-> c3]
               ELSE IF Raised(env.related) THEN [ret |-> env.related, calls |-> c4]
               ELSE IF Raised(RelatedGet(env.related, "top"))
               THEN [ret |-> RelatedGet(env.related, "top"), calls |-> c4]
               ELSE [ret |-> [df_time |-> df_time,
                              df_region |-> IF Len(geo) <= 2 THEN RegionFrame(env.by_region)
                                            ELSE EmptyDataFrame,
                              top_queries |-> RelatedGet(env.related, "top"),
                              rising_queries |-> RelatedGet(env.related, "rising")],
                     calls |-> c4]

\* Lines 64-96 of utils.py (309-344 of app.py): the body of the try block.
\* ret is the returned dict or the exception raised, calls the requests sent.
TryTrends(term, time_period, geo, env) ==
    LET c1 == <<PayloadCall(term, time_period, geo)>>
        c2 == c1 \o <<OverTimeCall>>
    IN IF Raised(env.payload) THEN [ret |-> env.payload, calls |-> c1]
       ELSE IF Raised(env.over_time) THEN [ret |-> env.over_time, calls |-> c2]
       ELSE IF \/ Empty(env.over_time)
               \/ KeywordColumn \notin env.over_time.columns
               \/ MaxOver(env.over_time.rows, Len(env.over_time.rows), KeywordColumn) = 0
       THEN [ret |-> NoDataError, calls |-> c2]
       ELSE LET df_time == RenameAndReset(env.over_time)
                c3 == IF Len(geo) <= 2 THEN c2 \o <<ByRegionCall>> ELSE c2
                c4 == c3 \o <<RelatedCall>>
            IN IF Raised(df_time) THEN [ret |-> df_time, calls |-> c2]
               ELSE IF Len(geo) <= 2 /\ Raised(env.by_region)
               THEN [ret |-> env.by_region, calls |-> c3]
               ELSE IF Raised(env.related) THEN [ret |-> env.related, calls |-> c4]
               ELSE IF Raised(RelatedGet(env.related, "top"))
               THEN [ret |-> RelatedGet(env.related, "top"), calls |-> c4]
               ELSE [ret |-> [df_time |-> df_time,
                              df_region |-> IF Len(geo) <= 2 THEN RegionFrame(env.by_region)
                                            ELSE EmptyDataFrame,
                              top_queries |-> RelatedGet(env.related, "top"),
                              rising_queries |-> RelatedGet(env.related, "rising")],
                     calls |-> c4]

\* fetch_google_trends: the try block and its handler (line 99 of utils.py).
fetch_google_trends(term, time_period, geo, env) ==
    LET r == TryTrends(term, time_period, geo, env)
    IN IF Raised(r.ret) /\ r.ret.raise \in Exception
       THEN [ret |-> PyTrendsError, calls |-> r.calls]
       ELSE r

----------------------------------------------------------------------------
(* Inputs *)

\* The non-negative averages given to get_momentum_score.
Avgs == {Rat(n, d) : n \in 0..MaxNum, d \in 1..MaxDen}

SocialAvgs == {Rat(n, 1) : n \in 0..MaxSocialAvg}
TrendsAvgs == {Rat(n, 1) : n \in (0..MaxTrendsAvg) \cup {50}}

TiktokKeys == {"views_14d_avg", "views_60d_avg", "likes_14d_avg", "likes_60d_avg",
               "comments_14d_avg", "comments_60d_avg", "shares_14d_avg", "shares_60d_avg"}
TrendsKeys == {"trends_14d_avg", "trends_60d_avg"}

\* The values calculate_growth_metrics / calculate_trends_metrics can hand to
\* calculate_ihp: None, or a dict with every key set to a non-negative average.
TiktokMetricsInputs == {None} \cup [TiktokKeys -> SocialAvgs]
TrendsMetricsInputs == {None} \cup [TrendsKeys -> TrendsAvgs]

----------------------------------------------------------------------------
(* The state of the application before main has run (src/app.py 552-557) *)

InitAppRest ==
    /\ search_term = <<>>
    /\ time_value = ""
    /\ geo_value = <<>>
    /\ secrets = None
    /\ tiktok_response = None
    /\ trends_env = None
    /\ display_env = None
    /\ videos = None
    /\ trends_results_ihp = None
    /\ trends_results_display = None
    /\ calls = <<>>
    /\ warnings = {}
    /\ rendered = None
    /\ prev_run = <<>>

----------------------------------------------------------------------------
(* get_momentum_score as a state machine: a call, its return, the next call *)

InitMomentum ==
    /\ arg_recent \in Avgs
    /\ arg_historical \in Avgs
    /\ ret_score = NoValue
    /\ prev_call = <<>>
    /\ growth_data = None
    /\ trends_ihp_metrics = None
    /\ ihp_metrics = None
    /\ recommendation = ""
    /\ arg_ihp_total_score = NoValue
    /\ df = EmptyDataFrame
    /\ df_trends = None
    /\ windows = None
    /\ InitAppRest
    /\ pc = "get_momentum_score"

ReturnMomentum ==
    /\ ret_score = NoValue
    /\ ret_score' = get_momentum_score(arg_recent, arg_historical)
    /\ UNCHANGED <<arg_recent, arg_historical, prev_call>>
    /\ UNCHANGED <<ihp_vars, agg_vars, app_vars, arg_ihp_total_score, pc>>

CallMomentum ==
    /\ ret_score # NoValue
    /\ prev_call' = <<[recent_avg |-> arg_recent,
                       historical_avg |-> arg_historical,
                       score |-> ret_score]>>
    /\ arg_recent' \in Avgs
    /\ arg_historical' \in Avgs
    /\ ret_score' = NoValue
    /\ UNCHANGED <<ihp_vars, agg_vars, app_vars, arg_ihp_total_score, pc>>

NextMomentum == ReturnMomentum \/ CallMomentum

SpecMomentum == InitMomentum /\ [][NextMomentum]_vars

----------------------------------------------------------------------------
(* calculate_ihp followed by get_ihp_recommendation (src/app.py 600-602) *)

InitIhp ==
    /\ growth_data \in TiktokMetricsInputs
    /\ trends_ihp_metrics \in TrendsMetricsInputs
    /\ ihp_metrics = None
    /\ recommendation = ""
    /\ arg_recent = Rat(0, 1)
    /\ arg_historical = Rat(0, 1)
    /\ ret_score = NoValue
    /\ prev_call = <<>>
    /\ arg_ihp_total_score = NoValue
    /\ df = EmptyDataFrame
    /\ df_trends = None
    /\ windows = None
    /\ InitAppRest
    /\ pc = "calculate_ihp"

ReturnIhp ==
    /\ ihp_metrics = None
    /\ ihp_metrics' = calculate_ihp(growth_data, trends_ihp_metrics)
    /\ recommendation' = get_ihp_recommendation(ihp_metrics'.ihp_total_score)
    /\ UNCHANGED <<growth_data, trends_ihp_metrics>>
    /\ UNCHANGED <<momentum_vars, agg_vars, app_vars, arg_ihp_total_score, pc>>

NextIhp == ReturnIhp

SpecIhp == InitIhp /\ [][NextIhp]_vars

----------------------------------------------------------------------------
(* get_ihp_recommendation on its own (src/app.py 601-602) *)

\* The indexes given to get_ihp_recommendation: the whole numbers up to
\* MaxIndex and the values 0.001 below each threshold (59.999, 99.999, 149.999).
IndexInputs == {Rat(k, 1) : k \in 0..MaxIndex}
               \cup {Rat(t * 1000 - 1, 1000) : t \in {60, 100, 150}}

InitRecommendation ==
    /\ arg_ihp_total_score \in IndexInputs
    /\ recommendation = ""
    /\ pc = "get_ihp_recommendation"
    /\ growth_data = None
    /\ trends_ihp_metrics = None
    /\ ihp_metrics = None
    /\ arg_recent = Rat(0, 1)
    /\ arg_historical = Rat(0, 1)
    /\ ret_score = NoValue
    /\ prev_call = <<>>
    /\ df = EmptyDataFrame
    /\ df_trends = None
    /\ windows = None
    /\ InitAppRest

ReturnRecommendation ==
    /\ pc = "get_ihp_recommendation"
    /\ recommendation' = get_ihp_recommendation(arg_ihp_total_score)
    /\ pc' = "get_ihp_recommendation returned"
    /\ UNCHANGED <<momentum_vars, agg_vars, app_vars, arg_ihp_total_score,
                   growth_data, trends_ihp_metrics, ihp_metrics>>

NextRecommendation == ReturnRecommendation

SpecRecommendation == InitRecommendation /\ [][NextRecommendation]_vars

----------------------------------------------------------------------------
(* The two aggregators as a state machine: one call of either, its return *)

CountCols == {"play_count", "digg_count", "comment_count", "share_count"}
TiktokCols == CountCols \cup {"create_time"}
TrendsCols == {"date", "interest"}

\* The counters of a video and the interest of a daily observation.
CountValues == {0, 1}
InterestValues == {0, 50, 100}

\* Timestamps just outside the 60-day window, on its first day, on the first
\* day of the 14-day window, and (social samples only) the missing timestamp.
Dates == {Timestamp(datetime_now - HistoricalDays - 1),
          Timestamp(datetime_now - HistoricalDays),
          Timestamp(datetime_now - RecentDays)}
CreateTimes == Dates \cup {NaT}

TiktokRows(cols) ==
    {[c \in cols |-> IF c = "create_time" THEN t ELSE f[c]] :
        t \in CreateTimes, f \in [cols \cap CountCols -> CountValues]}

TrendsRows(cols) ==
    {[c \in cols |-> IF c = "date" THEN t ELSE v] : t \in Dates, v \in InterestValues}

\* DataFrames with every column, or with one column missing.
TiktokColumnSets == {TiktokCols} \cup {TiktokCols \ {c} : c \in TiktokCols}
TrendsColumnSets == {TrendsCols} \cup {TrendsCols \ {c} : c \in TrendsCols}

InitEngineRest ==
    /\ windows = None
    /\ growth_data = None
    /\ trends_ihp_metrics = None
    /\ ihp_metrics = None
    /\ recommendation = ""
    /\ arg_ihp_total_score = NoValue
    /\ arg_recent = Rat(0, 1)
    /\ arg_historical = Rat(0, 1)
    /\ ret_score = NoValue
    /\ prev_call = <<>>

InitAggregatorRest ==
    /\ InitEngineRest
    /\ InitAppRest

InitGrowth ==
    /\ pc = "calculate_growth_metrics"
    /\ \E cols \in TiktokColumnSets : \E k \in 0..MaxVideos :
          \E rs \in [1..k -> TiktokRows(cols)] : df = [columns |-> cols, rows |-> rs]
    /\ df_trends = None
    /\ InitAggregatorRest

InitTrends ==
    /\ pc = "calculate_trends_metrics"
    /\ \/ df_trends = None
       \/ \E cols \in TrendsColumnSets : \E k \in 0..MaxObs :
             \E rs \in [1..k -> TrendsRows(cols)] : df_trends = [columns |-> cols, rows |-> rs]
    /\ df = EmptyDataFrame
    /\ InitAggregatorRest

ReturnGrowth ==
    /\ pc = "calculate_growth_metrics"
    /\ LET r == calculate_growth_metrics(df)
       IN /\ growth_data' = r.ret
          /\ df' = r.df
          /\ windows' = r.windows
    /\ pc' = "calculate_growth_metrics returned"
    /\ UNCHANGED <<momentum_vars, app_vars, arg_ihp_total_score, df_trends,
                   trends_ihp_metrics, ihp_metrics, recommendation>>

ReturnTrends ==
    /\ pc = "calculate_trends_metrics"
    /\ LET r == calculate_trends_metrics(df_trends)
       IN /\ trends_ihp_metrics' = r.ret
          /\ df_trends' = r.df_trends
          /\ windows' = r.windows
    /\ pc' = "calculate_trends_metrics returned"
    /\ UNCHANGED <<momentum_vars, app_vars, arg_ihp_total_score, df,
                   growth_data, ihp_metrics, recommendation>>

InitAggregators == InitGrowth \/ InitTrends
NextAggregators == ReturnGrowth \/ ReturnTrends

SpecAggregators == InitAggregators /\ [][NextAggregators]_vars

----------------------------------------------------------------------------
(* main (src/app.py 514-631) *)

Whitespace == {" "}

\* str.strip() on a sequence of characters.
RECURSIVE LStrip(_)
LStrip(s) == IF s # <<>> /\ Head(s) \in Whitespace THEN LStrip(Tail(s)) ELSE s

RECURSIVE RStrip(_)
RStrip(s) ==
    IF s # <<>> /\ s[Len(s)] \in Whitespace THEN RStrip(SubSeq(s, 1, Len(s) - 1)) ELSE s

Strip(s) == RStrip(LStrip(s))

\* str.upper() on one character.
Upper(ch) ==
    IF ch = "a" THEN "A" ELSE IF ch = "b" THEN "B" ELSE IF ch = "m" THEN "M"
    ELSE IF ch = "r" THEN "R" ELSE ch

\* Lines 547-548: the region in upper case, its spaces removed.
RECURSIVE GeoCode(_)
GeoCode(s) ==
    IF s = <<>> THEN <<>>
    ELSE IF Head(s) = " " THEN GeoCode(Tail(s))
    ELSE <<Upper(Head(s))>> \o GeoCode(Tail(s))

\* Lines 565-578 on the columns the aggregator reads: the DataFrame of the
\* videos, an absent create_time as NaT, a present one as a timestamp, an
\* absent counter as 0.
NormaliseVideos(vs) ==
    [columns |-> TiktokCols,
     rows |-> [i \in DOMAIN vs |->
                 [c \in TiktokCols |->
                     IF c = "create_time"
                     THEN (IF c \in DOMAIN vs[i] THEN Timestamp(vs[i][c]) ELSE NaT)
                     ELSE (IF c \in DOMAIN vs[i] THEN vs[i][c] ELSE 0)]]]

TiktokFetchCall(term) == [call |-> "fetch_tiktok_data", term |-> term]
TrendsFetchCall(term, time_period, geo) ==
    [call |-> "fetch_google_trends", term |-> term, timeframe |-> time_period, geo |-> geo]

\* Lines 562-580: the TikTok fetch, the DataFrame and its averages.
MainTiktok(term, st_secrets, response) ==
    LET r == app_fetch_tiktok_data(term, st_secrets, response)
        fetched == r.ret
        frame == IF Truthy(fetched) THEN NormaliseVideos(fetched.list) ELSE EmptyDataFrame
    IN [videos |-> fetched,
        df |-> frame,
        growth_data |-> IF Truthy(fetched) THEN calculate_growth_metrics(frame).ret ELSE None,
        calls |-> <<TiktokFetchCall(term)>> \o r.calls]

\* Lines 584-586: the 'today 3-m' fetch and its averages.  The frame under
\* df_time is the one calculate_trends_metrics works on.
MainTrends(term, geo, env) ==
    LET r == fetch_google_trends(term, "today 3-m", geo, env)
        trends_df_90d == Get(r.ret, "df_time", None)
        m == calculate_trends_metrics(trends_df_90d)
    IN [trends_results_ihp |-> IF "df_time" \in DOMAIN r.ret
                               THEN [r.ret EXCEPT !["df_time"] = m.df_trends]
                               ELSE r.ret,
        df_trends |-> m.df_trends,
        trends_ihp_metrics |-> m.ret,
        calls |-> <<TrendsFetchCall(term, "today 3-m", geo)>> \o r.calls]

\* Lines 589-595: the fetch for the selected period.
MainDisplay(term, period, geo, results_ihp, env) ==
    IF period = "today 3-m" /\ results_ihp # None /\ DOMAIN results_ihp # {}
    THEN [ret |-> results_ihp, calls |-> <<>>]
    ELSE LET r == fetch_google_trends(term, period, geo, env)
         IN [ret |-> r.ret, calls |-> <<TrendsFetchCall(term, period, geo)>> \o r.calls]

\* f"{x:.0f}": the nearest whole number, a tie going to the even one.
Format0f(x) ==
    LET q == x[1] \div x[2]
        r == x[1] % x[2]
    IN IF 2 * r < x[2] THEN q
       ELSE IF 2 * r > x[2] THEN q + 1
       ELSE IF q % 2 = 0 THEN q ELSE q + 1

\* bool(x) for x None or a dict.
TruthyDict(x) == x # None /\ DOMAIN x # {}

\* Faulty variant: each warning is tested on the other source.
Warnings_swapped(tiktok_metrics, trends_metrics) ==
    (IF ~TruthyDict(trends_metrics) THEN {"tiktok"} ELSE {})
    \cup (IF ~TruthyDict(tiktok_metrics) THEN {"trends"} ELSE {})

\* Faulty variant: a source whose averages are all 0 is warned about as well.
Warnings_zeroaverages(tiktok_metrics, trends_metrics) ==
    (IF ~TruthyDict(tiktok_metrics)
        \/ \A k \in DOMAIN tiktok_metrics : tiktok_metrics[k] = Rat(0, 1)
     THEN {"tiktok"} ELSE {})
    \cup (IF ~TruthyDict(trends_metrics)
             \/ \A k \in DOMAIN trends_metrics : trends_metrics[k] = Rat(0, 1)
          THEN {"trends"} ELSE {})

\* Lines 628-631: the warnings about missing data.
Warnings(tiktok_metrics, trends_metrics) ==
    (IF ~TruthyDict(tiktok_metrics) THEN {"tiktok"} ELSE {})
    \cup (IF ~TruthyDict(trends_metrics) THEN {"trends"} ELSE {})

\* Lines 600-640: the index, its label, the card, the warnings, the text.
MainRender(tiktok_metrics, trends_metrics) ==
    LET metrics == calculate_ihp(tiktok_metrics, trends_metrics)
        ihp_total_score == metrics.ihp_total_score
        label == get_ihp_recommendation(ihp_total_score)
    IN [ihp_metrics |-> metrics,
        recommendation |-> label,
        rendered |-> [card |-> Format0f(ihp_total_score), text |-> label],
        warnings |-> Warnings(tiktok_metrics, trends_metrics)]

----------------------------------------------------------------------------
(* The pipeline of main: an aggregator, then calculate_ihp on its result     *)
(* (src/app.py 580, 586, 600-602)                                            *)

\* The counters of the videos given to the pipeline.
VideoCounters ==
    {[play_count |-> 0, digg_count |-> 0, comment_count |-> 0, share_count |-> 0],
     [play_count |-> 7, digg_count |-> 7, comment_count |-> 0, share_count |-> 1],
     [play_count |-> 23, digg_count |-> 7, comment_count |-> 1, share_count |-> 0],
     [play_count |-> 16, digg_count |-> 0, comment_count |-> 7, share_count |-> 23]}

PipelineRows ==
    {[c \in TiktokCols |-> IF c = "create_time" THEN t ELSE p[c]] :
        t \in CreateTimes, p \in VideoCounters}

InitPipelineGrowth ==
    /\ pc = "calculate_growth_metrics"
    /\ \E k \in 0..MaxVideos : \E rs \in [1..k -> PipelineRows] :
          df = [columns |-> TiktokCols, rows |-> rs]
    /\ df_trends = None
    /\ InitAggregatorRest

InitPipelineTrends ==
    /\ pc = "calculate_trends_metrics"
    /\ \E k \in 0..MaxObs : \E rs \in [1..k -> TrendsRows(TrendsCols)] :
          df_trends = [columns |-> TrendsCols, rows |-> rs]
    /\ df = EmptyDataFrame
    /\ InitAggregatorRest

\* Lines 600-602 after either aggregator has returned without an exception.
ScoreAggregates ==
    /\ pc \in {"calculate_growth_metrics returned", "calculate_trends_metrics returned"}
    /\ trends_ihp_metrics # KeyError
    /\ ihp_metrics' = calculate_ihp(growth_data, trends_ihp_metrics)
    /\ recommendation' = get_ihp_recommendation(ihp_metrics'.ihp_total_score)
    /\ pc' = "calculate_ihp returned"
    /\ UNCHANGED <<momentum_vars, agg_vars, app_vars, arg_ihp_total_score,
                   growth_data, trends_ihp_metrics>>

InitPipeline == InitPipelineGrowth \/ InitPipelineTrends
NextPipeline == ReturnGrowth \/ ReturnTrends \/ ScoreAggregates

SpecPipeline == InitPipeline /\ [][NextPipeline]_vars

----------------------------------------------------------------------------
(* fetch_tiktok_data as a state machine: one call of either copy, its return *)

\* st.secrets: no tiktok_api section, or a key and a host.
SecretsValues ==
    {None} \cup [key : {"", "dummy_key", "k3y"}, host : {"dummy_host", "api.example"}]

\* A video of the feed: create_time in days, its counters; a field may be absent.
ApiVideos ==
    {[create_time |-> datetime_now - RecentDays, play_count |-> 7, digg_count |-> 7,
      comment_count |-> 0, share_count |-> 1],
     [create_time |-> datetime_now - HistoricalDays, play_count |-> 23, digg_count |-> 7,
      comment_count |-> 1, share_count |-> 0],
     [create_time |-> datetime_now - HistoricalDays - 1, play_count |-> 16,
      digg_count |-> 0, comment_count |-> 7, share_count |-> 23],
     [play_count |-> 7]}

\* The JSON arrays of at most n videos.
VideoLists(n) == UNION {{List(vs) : vs \in [1..k -> ApiVideos]} : k \in 0..n}

\* The value under "data" of a JSON body: null, an object without videos, or
\* an object with an array of videos.
DataValues(n) ==
    {None, [cursor |-> 0]} \cup {[cursor |-> 0, videos |-> v] : v \in VideoLists(n)}

\* The JSON bodies: an array, or an object with or without code and data.
JsonBodies(n) ==
    {List(<<>>)}
    \cup {[msg |-> "x"]}
    \cup {[msg |-> "x", code |-> c] : c \in {0, -1}}
    \cup {[msg |-> "x", data |-> d] : d \in DataValues(n)}
    \cup {[msg |-> "x", code |-> c, data |-> d] : c \in {0, -1}, d \in DataValues(n)}

\* What a GET can end in: no connection, a timeout, a 4xx/5xx status, a body
\* that is not JSON, or a JSON body.
TiktokResponses(n) ==
    {[kind |-> k] : k \in {"ConnectionError", "Timeout", "HTTPError", "JSONDecodeError"}}
    \cup {[kind |-> "json", body |-> b] : b \in JsonBodies(n)}

FetchTerms == {<<"a">>, <<"a", " ", "b">>}

InitFetchRest ==
    /\ time_value = ""
    /\ geo_value = <<>>
    /\ display_env = None
    /\ videos = None
    /\ trends_results_ihp = None
    /\ trends_results_display = None
    /\ calls = <<>>
    /\ warnings = {}
    /\ rendered = None
    /\ prev_run = <<>>
    /\ df = EmptyDataFrame
    /\ df_trends = None
    /\ InitEngineRest

InitFetchTiktok ==
    /\ pc \in {"utils.fetch_tiktok_data", "app.fetch_tiktok_data"}
    /\ search_term \in FetchTerms
    /\ secrets \in SecretsValues
    /\ tiktok_response \in TiktokResponses(MaxApiVideos)
    /\ trends_env = None
    /\ InitFetchRest

ReturnFetchTiktok ==
    /\ pc = "utils.fetch_tiktok_data"
    /\ LET r == fetch_tiktok_data(search_term, secrets, tiktok_response)
       IN /\ videos' = r.ret
          /\ calls' = calls \o r.calls
    /\ pc' = "fetch_tiktok_data returned"
    /\ UNCHANGED <<momentum_vars, ihp_vars, agg_vars, input_vars, env_vars,
                   arg_ihp_total_score, trends_results_ihp, trends_results_display,
                   warnings, rendered, prev_run>>

ReturnAppFetchTiktok ==
    /\ pc = "app.fetch_tiktok_data"
    /\ LET r == app_fetch_tiktok_data(search_term, secrets, tiktok_response)
       IN /\ videos' = r.ret
          /\ calls' = calls \o r.calls
    /\ pc' = "fetch_tiktok_data returned"
    /\ UNCHANGED <<momentum_vars, ihp_vars, agg_vars, input_vars, env_vars,
                   arg_ihp_total_score, trends_results_ihp, trends_results_display,
                   warnings, rendered, prev_run>>

NextFetchTiktok == ReturnFetchTiktok \/ ReturnAppFetchTiktok

SpecFetchTiktok == InitFetchTiktok /\ [][NextFetchTiktok]_vars

----------------------------------------------------------------------------
(* fetch_google_trends as a state machine: one call, its return *)

\* A call of pytrends that went through.
Ok == [ok |-> TRUE]

\* The frames interest_over_time can give: indexed by date, with the keyword's
\* column or another one, with or without isPartial, at most n observations.
OverTimeColumnSets == {{KeywordColumn, "isPartial"}, {KeywordColumn}, {"<other>", "isPartial"},
                       {KeywordColumn, "<other>", "isPartial"}}

OverTimeRows(cols) ==
    {[c \in cols \cup {"date"} |->
         IF c = "date" THEN t ELSE IF c = "isPartial" THEN FALSE ELSE v] :
        t \in Dates, v \in {0, 50}}

OverTimeFrames(n) ==
    UNION {UNION {{[columns |-> cols, rows |-> rs] : rs \in [1..k -> OverTimeRows(cols)]} :
                     k \in 0..n} : cols \in OverTimeColumnSets}

\* interest_by_region: an exception, no rows, or two regions in ascending order.
RegionValues ==
    {Raise("ResponseError"),
     EmptyDataFrame,
     [columns |-> {KeywordColumn},
      rows |-> <<("geoName" :> "Acre") @@ (KeywordColumn :> 50),
                 ("geoName" :> "Bahia") @@ (KeywordColumn :> 100)>>]}

\* related_queries: an exception, a dict without the keyword, the keyword
\* with None, or the keyword with its top queries and no rising ones.
RelatedValues ==
    {Raise("ResponseError"),
     [unrelated |-> None],
     (KeywordColumn :> None),
     (KeywordColumn :> [top |-> [columns |-> {"query", "value"},
                                 rows |-> <<[query |-> "a b", value |-> 100]>>],
                        rising |-> None])}

\* What Google Trends answers to one fetch.
TrendsEnvs(n) ==
    {[payload |-> Raise("ResponseError")]}
    \cup {[payload |-> Ok, over_time |-> Raise("ResponseError")]}
    \cup {[payload |-> Ok, over_time |-> f, by_region |-> b, related |-> q] :
             f \in OverTimeFrames(n), b \in RegionValues, q \in RelatedValues}

GeoValues == {<<>>, <<"B", "R">>, <<"B", "R", "-", "A", "M">>}
TimePeriods == {"today 3-m", "today 12-m"}

InitFetchTrends ==
    /\ pc = "fetch_google_trends"
    /\ search_term \in FetchTerms
    /\ time_value \in TimePeriods
    /\ geo_value \in GeoValues
    /\ trends_env \in TrendsEnvs(MaxSeries)
    /\ secrets = None
    /\ tiktok_response = None
    /\ display_env = None
    /\ videos = None
    /\ trends_results_ihp = None
    /\ trends_results_display = None
    /\ calls = <<>>
    /\ warnings = {}
    /\ rendered = None
    /\ prev_run = <<>>
    /\ df = EmptyDataFrame
    /\ df_trends = None
    /\ InitEngineRest

ReturnFetchTrends ==
    /\ pc = "fetch_google_trends"
    /\ LET r == fetch_google_trends(search_term, time_value, geo_value, trends_env)
       IN /\ trends_results_ihp' = r.ret
          /\ calls' = calls \o r.calls
    /\ pc' = "fetch_google_trends returned"
    /\ UNCHANGED <<momentum_vars, ihp_vars, agg_vars, input_vars, env_vars,
                   arg_ihp_total_score, videos, trends_results_display,
                   warnings, rendered, prev_run>>

NextFetchTrends == ReturnFetchTrends

SpecFetchTrends == InitFetchTrends /\ [][NextFetchTrends]_vars

----------------------------------------------------------------------------
(* main as a state machine: a run of the script, then a rerun with another  *)
(* period (src/app.py 514-631)                                               *)

\* The values of lines 552-557 and nothing shown.
MainDefaults ==
    [outcome |-> "no term",
     videos |-> None,
     df |-> EmptyDataFrame,
     growth_data |-> None,
     trends_results_ihp |-> None,
     df_trends |-> None,
     trends_ihp_metrics |-> None,
     trends_results_display |-> None,
     ihp_metrics |-> None,
     recommendation |-> "",
     calls |-> <<>>,
     warnings |-> {},
     rendered |-> None]

\* The one member of a set of one member.
The(S) == CHOOSE v \in S : TRUE

\* The values main leaves behind when it has rendered: tk of lines 562-580,
\* tr of lines 584-586, averages the averages given to calculate_ihp, dp of
\* lines 589-595, out of lines 600-640.
MainRendered(tk, tr, averages, dp, out) ==
    [outcome |-> "rendered",
     videos |-> tk.videos,
     df |-> tk.df,
     growth_data |-> tk.growth_data,
     trends_results_ihp |-> tr.trends_results_ihp,
     df_trends |-> tr.df_trends,
     trends_ihp_metrics |-> averages,
     trends_results_display |-> dp.ret,
     ihp_metrics |-> out.ihp_metrics,
     recommendation |-> out.recommendation,
     calls |-> tk.calls \o tr.calls \o dp.calls,
     warnings |-> out.warnings,
     rendered |-> out.rendered]

\* Faulty variant: the averages of search interest are taken from the fetch
\* for the selected period.
main_displayaverages(text, period, geo_input, st_secrets, response, env_ihp, env_display) ==
    IF text = <<>> THEN MainDefaults
    ELSE The({The({The({The({MainRendered(tk, tr, dm.ret, dp, out)
                             : out \in {MainRender(tk.growth_data, dm.ret)}})
                        : dm \in {calculate_trends_metrics(Get(dp.ret, "df_time", None))}})
                   : dp \in {MainDisplay(Strip(text), period, GeoCode(geo_input),
                                         tr.trends_results_ihp, env_display)}})
              : tk \in {MainTiktok(Strip(text), st_secrets, response)},
                tr \in {MainTrends(Strip(text), GeoCode(geo_input), env_ihp)}})

\* main: text is the content of the search box, period the Trends period of
\* the selected option, geo_input the content of the region box.  A KeyError
\* of calculate_trends_metrics leaves main at line 586.  tk, tr, dp and out
\* are the values of the steps of main, each computed once, in the order of
\* the code.
main(text, period, geo_input, st_secrets, response, env_ihp, env_display) ==
    IF text = <<>> THEN MainDefaults
    ELSE The({IF tr.trends_ihp_metrics = KeyError
              THEN [MainDefaults EXCEPT !.outcome = "raised",
                                        !.videos = tk.videos,
                                        !.df = tk.df,
                                        !.growth_data = tk.growth_data,
                                        !.trends_results_ihp = tr.trends_results_ihp,
                                        !.df_trends = tr.df_trends,
                                        !.calls = tk.calls \o tr.calls]
              ELSE The({MainRendered(tk, tr, tr.trends_ihp_metrics, dp, out)
                        : dp \in {MainDisplay(Strip(text), period, GeoCode(geo_input),
                                              tr.trends_results_ihp, env_display)},
                          out \in {MainRender(tk.growth_data, tr.trends_ihp_metrics)}})
              : tk \in {MainTiktok(Strip(text), st_secrets, response)},
                tr \in {MainTrends(Strip(text), GeoCode(geo_input), env_ihp)}})

\* The contents of the search box: nothing, a blank, a term, a padded term.
SearchTexts == {<<>>, <<" ">>, <<"a">>, <<" ", "a", " ">>}

\* The periods of the three options (lines 535-539).
MainPeriods == {"today 12-m", "today 5-y", "all"}

\* The content of the region box.
GeoInputs == {<<"b", "r">>}

\* st.secrets of a run: no tiktok_api section, or a real key and host.
MainSecrets == {None, [key |-> "k3y", host |-> "api.example"]}

\* The answers of the TikTok endpoint in a run: no connection, a non-zero
\* code, or code 0 with at most n videos.
MainTiktokResponses(n) ==
    {[kind |-> "ConnectionError"],
     [kind |-> "json", body |-> [msg |-> "x", code |-> -1]]}
    \cup {[kind |-> "json", body |-> [msg |-> "x", code |-> 0,
                                      data |-> [cursor |-> 0, videos |-> v]]] :
             v \in VideoLists(n)}

\* The by-region frame and the related queries of a run.
MainRegion == CHOOSE b \in RegionValues : ~Raised(b) /\ Len(b.rows) > 0
MainRelated ==
    CHOOSE q \in RelatedValues :
        ~Raised(q) /\ KeywordColumn \in DOMAIN q /\ q[KeywordColumn] # None

\* The observations of a run: interest 50 on any of the dates, or 0 on the
\* first day of the 14-day window.
MainSeriesRows ==
    {r \in OverTimeRows({KeywordColumn, "isPartial"}) :
        r[KeywordColumn] = 50 \/ r["date"] = Timestamp(datetime_now - RecentDays)}

\* The answers of Google Trends to the 'today 3-m' fetch of a run: an
\* exception, or a series of at most n observations.
MainTrendsEnvs(n) ==
    {[payload |-> Raise("ResponseError")]}
    \cup UNION {{[payload |-> Ok,
                  over_time |-> [columns |-> {KeywordColumn, "isPartial"}, rows |-> rs],
                  by_region |-> MainRegion,
                  related |-> MainRelated] : rs \in [1..k -> MainSeriesRows]} : k \in 0..n}

\* The answers to the fetch for the selected period: an exception, or one
\* observation of 50 on the first day of the 14-day window.
DisplayEnvs ==
    {[payload |-> Raise("ResponseError")],
     [payload |-> Ok,
      over_time |-> [columns |-> {KeywordColumn, "isPartial"},
                     rows |-> <<[c \in {KeywordColumn, "isPartial", "date"} |->
                                   IF c = "date" THEN Timestamp(datetime_now - RecentDays)
                                   ELSE IF c = "isPartial" THEN FALSE ELSE 50]>>],
      by_region |-> MainRegion,
      related |-> MainRelated]}

InitMain ==
    /\ pc = "main"
    /\ search_term \in SearchTexts
    /\ time_value \in MainPeriods
    /\ geo_value \in GeoInputs
    /\ secrets \in MainSecrets
    /\ tiktok_response \in MainTiktokResponses(MaxRunRows)
    /\ trends_env \in MainTrendsEnvs(MaxRunRows)
    /\ display_env \in DisplayEnvs
    /\ videos = None
    /\ trends_results_ihp = None
    /\ trends_results_display = None
    /\ calls = <<>>
    /\ warnings = {}
    /\ rendered = None
    /\ prev_run = <<>>
    /\ df = EmptyDataFrame
    /\ df_trends = None
    /\ InitEngineRest

MainRun ==
    /\ pc = "main"
    /\ \E r \in {main(search_term, time_value, geo_value, secrets, tiktok_response,
                       trends_env, display_env)} :
          /\ videos' = r.videos
          /\ df' = r.df
          /\ growth_data' = r.growth_data
          /\ trends_results_ihp' = r.trends_results_ihp
          /\ df_trends' = r.df_trends
          /\ trends_ihp_metrics' = r.trends_ihp_metrics
          /\ trends_results_display' = r.trends_results_display
          /\ ihp_metrics' = r.ihp_metrics
          /\ recommendation' = r.recommendation
          /\ calls' = r.calls
          /\ warnings' = r.warnings
          /\ rendered' = r.rendered
          /\ pc' = IF r.outcome = "raised" THEN "main raised" ELSE "main returned"
    /\ UNCHANGED <<momentum_vars, arg_ihp_total_score, windows, input_vars, env_vars,
                   prev_run>>

\* Another option is selected (lines 540-546): the script runs again with
\* the same term, the same answers to the TikTok and 'today 3-m' fetches,
\* and whatever the fetch for the new period gives.
Rerun ==
    /\ pc = "main returned"
    /\ rendered # None
    /\ prev_run = <<>>
    /\ prev_run' = <<[ihp_total_score |-> ihp_metrics.ihp_total_score,
                      recommendation |-> recommendation,
                      display_failed |-> "error" \in DOMAIN trends_results_display]>>
    /\ time_value' \in MainPeriods \ {time_value}
    /\ display_env' \in DisplayEnvs
    /\ videos' = None
    /\ df' = EmptyDataFrame
    /\ growth_data' = None
    /\ trends_results_ihp' = None
    /\ df_trends' = None
    /\ trends_ihp_metrics' = None
    /\ trends_results_display' = None
    /\ ihp_metrics' = None
    /\ recommendation' = ""
    /\ calls' = <<>>
    /\ warnings' = {}
    /\ rendered' = None
    /\ pc' = "main"
    /\ UNCHANGED <<momentum_vars, arg_ihp_total_score, windows, search_term, geo_value,
                   secrets, tiktok_response, trends_env>>

NextMain == MainRun \/ Rerun

SpecMain == InitMain /\ [][NextMain]_vars

----------------------------------------------------------------------------
(* Shorthands for the properties *)

Returned == ret_score # NoValue
IhpReturned == ihp_metrics # None
Zero == Rat(0, 1)
Index == ihp_metrics.ihp_total_score
LowestBand == "Interesse em queda - produto esfriando"

----------------------------------------------------------------------------
(* Properties of get_momentum_score, checked under SpecMomentum *)

\* C1: for non-negative recent and historical the call returns a number
\* (no exception) that lies in [0, 200].
C1_ScoreInRange ==
    Returned => /\ IsNumber(ret_score)
                /\ RatLE(Zero, ret_score)
                /\ RatLE(ret_score, Rat(200, 1))

C1_Witness ==
    /\ Returned
    /\ arg_historical[1] > 0
    /\ RatLT(RatMul(Rat(2, 1), arg_historical), arg_recent)
    /\ ret_score = Rat(200, 1)

\* C2: for historical > 0 the score is min(recent / historical, 2) * 100:
\* 200 when recent >= 2 * historical, else score * historical = 100 * recent.
C2_ScoreFormula ==
    (Returned /\ arg_historical[1] > 0) =>
        /\ IsNumber(ret_score)
        /\ IF RatLE(RatMul(Rat(2, 1), arg_historical), arg_recent)
           THEN ret_score = Rat(200, 1)
           ELSE ret_score[1] * arg_historical[1] * arg_recent[2]
                    = 100 * arg_recent[1] * arg_historical[2] * ret_score[2]

C2_Witness ==
    /\ Returned
    /\ arg_historical[1] > 0
    /\ arg_recent[1] > 0
    /\ RatLT(arg_recent, arg_historical)
    /\ ret_score = Rat(50, 1)

\* C3: historical == 0 and recent > 0 gives 200.0.
C3_ZeroBaselineMax ==
    (Returned /\ arg_historical = Zero /\ RatLT(Zero, arg_recent)) => ret_score = Rat(200, 1)

C3_Witness ==
    /\ Returned
    /\ arg_historical = Zero
    /\ arg_recent = Rat(1, 2)
    /\ ret_score = Rat(200, 1)

\* C4: historical == 0 and recent == 0 gives 0.0, and no division by zero occurs.
C4_ZeroZero ==
    (Returned /\ arg_historical = Zero /\ arg_recent = Zero) =>
        (ret_score # ZeroDivisionError /\ ret_score = Zero)

C4_Witness ==
    /\ Returned
    /\ arg_historical = Zero
    /\ arg_recent = Zero
    /\ ret_score = Zero

\* C5: recent == historical > 0 gives 100.0.
C5_EqualIsHundred ==
    (Returned /\ arg_recent = arg_historical /\ RatLT(Zero, arg_historical)) =>
        ret_score = Rat(100, 1)

C5_Witness ==
    /\ Returned
    /\ arg_recent = arg_historical
    /\ arg_historical = Rat(3, 2)
    /\ ret_score = Rat(100, 1)

\* C6: recent >= 2 * historical > 0 gives 200.0, also at recent == 2 * historical.
C6_CapHolds ==
    (Returned /\ RatLT(Zero, arg_historical)
              /\ RatLE(RatMul(Rat(2, 1), arg_historical), arg_recent)) =>
        ret_score = Rat(200, 1)

C6_Witness ==
    /\ Returned
    /\ RatLT(Zero, arg_historical)
    /\ arg_recent = RatMul(Rat(2, 1), arg_historical)
    /\ ret_score = Rat(200, 1)

\* C7: for a fixed historical > 0, of two calls the one with the larger recent
\* does not return the smaller score.
C7_Monotone ==
    (Returned /\ prev_call # <<>>) =>
        LET prev == prev_call[1] IN
        (/\ prev.historical_avg = arg_historical
         /\ RatLT(Zero, arg_historical)
         /\ RatLE(prev.recent_avg, arg_recent)) =>
            (IsNumber(prev.score) /\ IsNumber(ret_score) /\ RatLE(prev.score, ret_score))

C7_Witness ==
    /\ Returned
    /\ prev_call # <<>>
    /\ prev_call[1].historical_avg = arg_historical
    /\ RatLT(Zero, arg_historical)
    /\ RatLT(prev_call[1].recent_avg, arg_recent)
    /\ RatLT(prev_call[1].score, ret_score)

----------------------------------------------------------------------------
(* Properties of calculate_ihp, checked under SpecIhp *)

\* C8: the index is 0.30*T + 0.25*V + 0.20*L + 0.15*C + 0.10*S over the five
\* momentum scores, and the five weights sum to 1.00.
C8_WeightedSum ==
    /\ WeightTrends + WeightViews + WeightLikes + WeightComments + WeightShares = 100
    /\ IhpReturned =>
          RatMul(Index, Rat(100, 1))
              = RatAdd(RatMul(Rat(30, 1), ihp_metrics.trends_momentum),
                RatAdd(RatMul(Rat(25, 1), ihp_metrics.views_momentum),
                RatAdd(RatMul(Rat(20, 1), ihp_metrics.likes_momentum),
                RatAdd(RatMul(Rat(15, 1), ihp_metrics.comments_momentum),
                       RatMul(Rat(10, 1), ihp_metrics.shares_momentum)))))

C8_Witness ==
    /\ IhpReturned
    /\ growth_data # None
    /\ trends_ihp_metrics # None
    /\ ihp_metrics.trends_momentum = Rat(50, 1)
    /\ ihp_metrics.views_momentum = Rat(100, 1)
    /\ ihp_metrics.likes_momentum = Rat(200, 1)
    /\ ihp_metrics.comments_momentum = Rat(0, 1)
    /\ ihp_metrics.shares_momentum = Rat(100, 1)
    /\ Index = Rat(90, 1)

\* C9: whatever the two sources are (None or a dict of non-negative averages),
\* the index is a number in [0, 200].
C9_IndexInRange ==
    IhpReturned => /\ IsNumber(Index)
                   /\ RatLE(Zero, Index)
                   /\ RatLE(Index, Rat(200, 1))

C9_Witness ==
    /\ IhpReturned
    /\ growth_data # None
    /\ trends_ihp_metrics # None
    /\ Index = Rat(200, 1)

\* C10: with one source None, each score of that source is 0.0 and the index is
\* the sum of the other source's terms with the original weights (not
\* renormalised); search 50/50 without social data gives 30.0 and the lowest band.
C10_MissingSourceCountsZero ==
    IhpReturned =>
        /\ growth_data = None =>
              /\ ihp_metrics.views_momentum = Zero
              /\ ihp_metrics.likes_momentum = Zero
              /\ ihp_metrics.comments_momentum = Zero
              /\ ihp_metrics.shares_momentum = Zero
              /\ RatMul(Index, Rat(100, 1)) = RatMul(Rat(30, 1), ihp_metrics.trends_momentum)
        /\ trends_ihp_metrics = None =>
              /\ ihp_metrics.trends_momentum = Zero
              /\ RatMul(Index, Rat(100, 1))
                    = RatAdd(RatMul(Rat(25, 1), ihp_metrics.views_momentum),
                      RatAdd(RatMul(Rat(20, 1), ihp_metrics.likes_momentum),
                      RatAdd(RatMul(Rat(15, 1), ihp_metrics.comments_momentum),
                             RatMul(Rat(10, 1), ihp_metrics.shares_momentum))))
        /\ (/\ growth_data = None
            /\ trends_ihp_metrics # None
            /\ trends_ihp_metrics["trends_14d_avg"] = trends_ihp_metrics["trends_60d_avg"]
            /\ RatLT(Zero, trends_ihp_metrics["trends_60d_avg"])) =>
              /\ Index = Rat(30, 1)
              /\ recommendation = LowestBand

C10_Witness ==
    /\ IhpReturned
    /\ growth_data = None
    /\ trends_ihp_metrics # None
    /\ trends_ihp_metrics["trends_14d_avg"] = Rat(50, 1)
    /\ trends_ihp_metrics["trends_60d_avg"] = Rat(50, 1)
    /\ Index = Rat(30, 1)
    /\ recommendation = LowestBand

\* C11: with both sources None the index is 0.0, the five scores are 0.0, the
\* recommendation is the lowest band, and no exception is raised.
C11_NoSourceAtAll ==
    (IhpReturned /\ growth_data = None /\ trends_ihp_metrics = None) =>
        /\ IsNumber(Index)
        /\ Index = Zero
        /\ \A k \in {"trends_momentum", "views_momentum", "likes_momentum",
                      "comments_momentum", "shares_momentum"} : ihp_metrics[k] = Zero
        /\ recommendation = LowestBand

C11_Witness ==
    /\ IhpReturned
    /\ growth_data = None
    /\ trends_ihp_metrics = None
    /\ ihp_metrics.ihp_total_score = Zero
    /\ ihp_metrics.trends_momentum = Zero
    /\ recommendation = LowestBand

----------------------------------------------------------------------------
(* Properties of get_ihp_recommendation, checked under SpecRecommendation *)

RecommendationReturned == pc = "get_ihp_recommendation returned"

\* C12: every index falls in exactly one of four bands with inclusive lower
\* bounds: >= 150 viral, [100, 150) rising, [60, 100) stable, < 60 declining.
C12_Bands ==
    RecommendationReturned =>
        LET n == arg_ihp_total_score[1]
            d == arg_ihp_total_score[2]
        IN /\ (n >= 150 * d) <=> (recommendation = "Viral - tendencia explosiva")
           /\ (n >= 100 * d /\ n < 150 * d) <=> (recommendation = "Em alta - hype crescendo")
           /\ (n >= 60 * d /\ n < 100 * d) <=> (recommendation = "Estavel - atencao sustentada")
           /\ (n < 60 * d) <=> (recommendation = LowestBand)

C12_Witness ==
    /\ RecommendationReturned
    /\ arg_ihp_total_score = Rat(60, 1)
    /\ recommendation = "Estavel - atencao sustentada"

----------------------------------------------------------------------------
(* Properties of the aggregators, checked under SpecAggregators *)

GrowthReturned == pc = "calculate_growth_metrics returned"
TrendsReturned == pc = "calculate_trends_metrics returned"
GrowthAveraged == GrowthReturned /\ growth_data # None
TrendsAveraged == TrendsReturned /\ trends_ihp_metrics # None /\ trends_ihp_metrics # KeyError

\* The sum of column col over the first n rows whose timestamp in column tcol
\* is present and not more than days days before now.
RECURSIVE SumSince(_, _, _, _, _)
SumSince(rows, n, col, tcol, days) ==
    IF n = 0 THEN 0
    ELSE (IF rows[n][tcol] # <<>> /\ rows[n][tcol][1] >= datetime_now - days
          THEN rows[n][col] ELSE 0)
         + SumSince(rows, n - 1, col, tcol, days)

\* The number of the first n rows in that window.
RECURSIVE CountSince(_, _, _, _)
CountSince(rows, n, tcol, days) ==
    IF n = 0 THEN 0
    ELSE (IF rows[n][tcol] # <<>> /\ rows[n][tcol][1] >= datetime_now - days THEN 1 ELSE 0)
         + CountSince(rows, n - 1, tcol, days)

SocialSum(col, days) ==
    IF col \in df.columns THEN SumSince(df.rows, Len(df.rows), col, "create_time", days) ELSE 0

Channels == {<<"views_14d_avg", "views_60d_avg", "play_count">>,
             <<"likes_14d_avg", "likes_60d_avg", "digg_count">>,
             <<"comments_14d_avg", "comments_60d_avg", "comment_count">>,
             <<"shares_14d_avg", "shares_60d_avg", "share_count">>}

\* C13: for views, likes, comments and shares, recent_avg is the sum over the
\* samples of the last 14 days divided by 14 and historical_avg the sum over
\* the last 60 days divided by 60, whatever the number of samples.
C13_GrowthAverages ==
    GrowthAveraged =>
        \A ch \in Channels :
            /\ IsNumber(growth_data[ch[1]])
            /\ IsNumber(growth_data[ch[2]])
            /\ growth_data[ch[1]][1] * 14 = SocialSum(ch[3], 14) * growth_data[ch[1]][2]
            /\ growth_data[ch[2]][1] * 60 = SocialSum(ch[3], 60) * growth_data[ch[2]][2]

C13_Witness ==
    /\ GrowthAveraged
    /\ Len(df.rows) = 2
    /\ SocialSum("play_count", 14) = 1
    /\ SocialSum("play_count", 60) = 2
    /\ growth_data["views_14d_avg"] = Rat(1, 14)
    /\ growth_data["views_60d_avg"] = Rat(2, 60)

TrendsSum(days) == SumSince(df_trends.rows, Len(df_trends.rows), "interest", "date", days)
TrendsCount(days) == CountSince(df_trends.rows, Len(df_trends.rows), "date", days)

C15_WindowSubset ==
    windows # None =>
        /\ windows.df_14d \subseteq windows.df_60d
        /\ GrowthReturned =>
              \A col \in CountCols \cap df.columns :
                  SumOver(df.rows, windows.df_14d, col) <= SumOver(df.rows, windows.df_60d, col)
        /\ (TrendsReturned /\ "interest" \in df_trends.columns) =>
              SumOver(df_trends.rows, windows.df_14d, "interest")
                  <= SumOver(df_trends.rows, windows.df_60d, "interest")

C15_Witness ==
    /\ GrowthAveraged
    /\ windows # None
    /\ windows.df_14d # {}
    /\ windows.df_14d # windows.df_60d
    /\ windows.df_14d \subseteq windows.df_60d
    /\ SumOver(df.rows, windows.df_14d, "play_count") = 1
    /\ SumOver(df.rows, windows.df_60d, "play_count") = 2

\* C16 as stated: an empty series, or one without its timestamp column, makes
\* the aggregator return None.
C16_NoDataSignal ==
    /\ (GrowthReturned /\ (Empty(df) \/ "create_time" \notin df.columns)) =>
            growth_data = None
    /\ (TrendsReturned /\ (df_trends = None \/ Empty(df_trends)
                                             \/ "date" \notin df_trends.columns)) =>
            trends_ihp_metrics = None

\* C17 as stated: no exception leaves an aggregator.
C17_NoExceptionEscapes ==
    /\ GrowthReturned => growth_data # KeyError
    /\ TrendsReturned => trends_ihp_metrics # KeyError

\* C18 as stated: a call leaves the caller's DataFrames as they were.
C18_InputsUnchanged == [][df' = df /\ df_trends' = df_trends]_vars

\* The DataFrame without its rows that have no timestamp.
WellFormed(df_in) ==
    [columns |-> df_in.columns,
     rows |-> SelectSeq(df_in.rows, LAMBDA r : r["create_time"] # NaT)]

----------------------------------------------------------------------------
(* A further property of calculate_ihp, checked under SpecIhp *)

\* The (recent_avg, historical_avg) pair of a channel: the two averages of the
\* source's dict, or 0 and 0 when the source is None.
ChannelPair(metrics, key14, key60) ==
    IF metrics = None THEN <<Zero, Zero>> ELSE <<metrics[key14], metrics[key60]>>

ScoreOf(pair) == get_momentum_score(pair[1], pair[2])

\* C19: the result carries the five momentum scores next to the index, each the
\* get_momentum_score of its channel's pair, and the index is their weighted sum.
C19_ScoresReported ==
    IhpReturned =>
        /\ DOMAIN ihp_metrics = {"ihp_total_score", "trends_momentum", "views_momentum",
                                 "likes_momentum", "comments_momentum", "shares_momentum"}
        /\ ihp_metrics.trends_momentum
              = ScoreOf(ChannelPair(trends_ihp_metrics, "trends_14d_avg", "trends_60d_avg"))
        /\ ihp_metrics.views_momentum
              = ScoreOf(ChannelPair(growth_data, "views_14d_avg", "views_60d_avg"))
        /\ ihp_metrics.likes_momentum
              = ScoreOf(ChannelPair(growth_data, "likes_14d_avg", "likes_60d_avg"))
        /\ ihp_metrics.comments_momentum
              = ScoreOf(ChannelPair(growth_data, "comments_14d_avg", "comments_60d_avg"))
        /\ ihp_metrics.shares_momentum
              = ScoreOf(ChannelPair(growth_data, "shares_14d_avg", "shares_60d_avg"))
        /\ Index = WeightedSum(ihp_metrics.trends_momentum, 30, ihp_metrics.views_momentum, 25,
                               ihp_metrics.likes_momentum, 20, ihp_metrics.comments_momentum, 15,
                               ihp_metrics.shares_momentum, 10)

C19_Witness ==
    /\ IhpReturned
    /\ growth_data # None
    /\ trends_ihp_metrics # None
    /\ growth_data["likes_14d_avg"] = Rat(1, 1)
    /\ growth_data["likes_60d_avg"] = Rat(1, 1)
    /\ growth_data["comments_14d_avg"] = Rat(1, 1)
    /\ growth_data["comments_60d_avg"] = Rat(0, 1)
    /\ ihp_metrics.likes_momentum = Rat(100, 1)
    /\ ihp_metrics.comments_momentum = Rat(200, 1)
    /\ ihp_metrics.trends_momentum = Rat(50, 1)


----------------------------------------------------------------------------
(* Properties of the index when one source is missing, checked under SpecIhp *)

Rising == "Em alta - hype crescendo"
Viral == "Viral - tendencia explosiva"

\* C24: the index is at most 200 times the total weight of the source that is
\* there.  Without social data (tiktok_metrics None) it is at most 60 and the
\* label is neither "Em alta" (Rising) nor "Viral"; without search data
\* (trends_metrics None) it is at most 140 and the label is not "Viral"; an
\* index of 150 or more occurs only when both sources are there.
C24_SingleSourceBound ==
    IhpReturned =>
        /\ growth_data = None =>
              /\ RatLE(Index, Rat(200 * WeightTrends, 100))
              /\ RatLE(Index, Rat(60, 1))
              /\ recommendation \notin {Rising, Viral}
        /\ trends_ihp_metrics = None =>
              /\ RatLE(Index, Rat(200 * (WeightViews + WeightLikes + WeightComments
                                         + WeightShares), 100))
              /\ RatLE(Index, Rat(140, 1))
              /\ recommendation # Viral
        /\ RatLE(Rat(150, 1), Index) =>
              growth_data # None /\ trends_ihp_metrics # None

\* Search data missing and every social channel at 200: the index is 140, "Em alta".
C24_Witness ==
    /\ IhpReturned
    /\ trends_ihp_metrics = None
    /\ growth_data # None
    /\ Index = Rat(140, 1)
    /\ recommendation = Rising

----------------------------------------------------------------------------
(* Properties of the pipeline, checked under SpecPipeline *)

Scored == pc = "calculate_ihp returned"

\* A social channel: its counter column, its two averages, its score.
ScoredChannels ==
    {[col |-> "play_count", recent |-> "views_14d_avg", historical |-> "views_60d_avg",
      score |-> "views_momentum"],
     [col |-> "digg_count", recent |-> "likes_14d_avg", historical |-> "likes_60d_avg",
      score |-> "likes_momentum"],
     [col |-> "comment_count", recent |-> "comments_14d_avg",
      historical |-> "comments_60d_avg", score |-> "comments_momentum"],
     [col |-> "share_count", recent |-> "shares_14d_avg", historical |-> "shares_60d_avg",
      score |-> "shares_momentum"]}

\* C25: for a social channel with 14-day sum S14 and 60-day sum S60 > 0 the
\* score is 200 exactly when 15 * S14 >= 7 * S60, so it is 200 whenever
\* S14 = S60, and it is 100 exactly when 30 * S14 = 7 * S60.
C25_SocialThresholds ==
    (Scored /\ growth_data # None) =>
        \A ch \in ScoredChannels :
            LET S14 == SocialSum(ch.col, 14)
                S60 == SocialSum(ch.col, 60)
                score == ihp_metrics[ch.score]
            IN S60 > 0 =>
                  /\ score = Rat(200, 1) <=> 15 * S14 >= 7 * S60
                  /\ S14 = S60 => score = Rat(200, 1)
                  /\ score = Rat(100, 1) <=> 30 * S14 = 7 * S60

\* Views: 7 in the last 14 days and 30 in the last 60 score 100, while the
\* likes of the same videos (7 and 14) score 200.
C25_Witness ==
    /\ Scored
    /\ growth_data # None
    /\ SocialSum("play_count", 14) = 7
    /\ SocialSum("play_count", 60) = 30
    /\ ihp_metrics.views_momentum = Rat(100, 1)
    /\ SocialSum("digg_count", 14) = 7
    /\ SocialSum("digg_count", 60) = 14
    /\ ihp_metrics.likes_momentum = Rat(200, 1)

\* The pairs (recent_avg, historical_avg) an aggregator has produced.
ProducedPairs ==
    (IF growth_data = None THEN {}
     ELSE {<<growth_data[ch.recent], growth_data[ch.historical]>> : ch \in ScoredChannels})
    \cup
    (IF trends_ihp_metrics = None THEN {}
     ELSE {<<trends_ihp_metrics.trends_14d_avg, trends_ihp_metrics.trends_60d_avg>>})

\* C26: in every pair produced by an aggregator historical_avg = 0 implies
\* recent_avg = 0, so on these pairs the zero-historical branch of
\* get_momentum_score gives 0.0 and a score of 200 has historical_avg > 0.
C26_ZeroHistoricalZeroRecent ==
    /\ \A p \in ProducedPairs : p[2] = Zero => p[1] = Zero
    /\ Scored =>
          /\ \A ch \in ScoredChannels :
                growth_data # None =>
                    /\ growth_data[ch.historical] = Zero => ihp_metrics[ch.score] = Zero
                    /\ ihp_metrics[ch.score] = Rat(200, 1) => growth_data[ch.historical] # Zero
          /\ trends_ihp_metrics # None =>
                /\ trends_ihp_metrics.trends_60d_avg = Zero
                      => ihp_metrics.trends_momentum = Zero
                /\ ihp_metrics.trends_momentum = Rat(200, 1)
                      => trends_ihp_metrics.trends_60d_avg # Zero

\* A video outside the 60-day window only: every pair is (0, 0) and is scored 0.
C26_Witness ==
    /\ Scored
    /\ growth_data # None
    /\ Len(df.rows) > 0
    /\ \E i \in DOMAIN df.rows : df.rows[i]["play_count"] > 0
    /\ growth_data.views_60d_avg = Zero
    /\ growth_data.views_14d_avg = Zero
    /\ ihp_metrics.views_momentum = Zero

----------------------------------------------------------------------------
(* Properties of fetch_tiktok_data, checked under SpecFetchTiktok *)

TiktokFetched == pc = "fetch_tiktok_data returned"

\* The keys are missing or are the placeholder values.
KeysNotConfigured ==
    \/ secrets = None
    \/ secrets.key \in {"", "dummy_key"}
    \/ secrets.host = "dummy_host"

\* The endpoint answered with a JSON object.
Responded ==
    /\ tiktok_response.kind = "json"
    /\ DOMAIN tiktok_response.body # {"list"}

ResponseCodeZero ==
    /\ "code" \in DOMAIN tiktok_response.body
    /\ tiktok_response.body["code"] = 0

\* The JSON object has code 0 and data null: reading its videos raises.
ParseFails ==
    /\ Responded
    /\ ResponseCodeZero
    /\ "data" \in DOMAIN tiktok_response.body
    /\ tiktok_response.body["data"] = None

ResponseHasVideos ==
    /\ "data" \in DOMAIN tiktok_response.body
    /\ tiktok_response.body["data"] # None
    /\ "videos" \in DOMAIN tiktok_response.body["data"]
    /\ Len(tiktok_response.body["data"]["videos"].list) > 0

\* C21 as stated: fetch_tiktok_data never raises; it returns None when the keys
\* are missing or placeholders (and then sends no request), when the request
\* fails and when reading the answer raises; it returns the empty list when
\* the endpoint answered with a non-zero code or without videos, and the
\* non-empty list of videos otherwise.
C21_FetchTiktokContract ==
    TiktokFetched =>
        /\ ~Raised(videos)
        /\ KeysNotConfigured => videos = None /\ calls = <<>>
        /\ (~KeysNotConfigured /\ (~Responded \/ ParseFails)) => videos = None
        /\ (~KeysNotConfigured /\ Responded /\ ~ParseFails
                /\ (~ResponseCodeZero \/ ~ResponseHasVideos)) => videos = List(<<>>)
        /\ (~KeysNotConfigured /\ Responded /\ ResponseCodeZero /\ ResponseHasVideos)
              => /\ videos = tiktok_response.body["data"]["videos"]
                 /\ Truthy(videos)

----------------------------------------------------------------------------
(* Properties of fetch_google_trends, checked under SpecFetchTrends *)

TrendsFetched == pc = "fetch_google_trends returned"

\* The time series came back and is empty, lacks the keyword, or peaks at 0.
SeriesUnusable ==
    /\ ~Raised(trends_env.payload)
    /\ ~Raised(trends_env.over_time)
    /\ \/ Len(trends_env.over_time.rows) = 0
       \/ KeywordColumn \notin trends_env.over_time.columns
       \/ \A i \in DOMAIN trends_env.over_time.rows :
             trends_env.over_time.rows[i][KeywordColumn] = 0

\* Some step of the fetch raises.
TrendsExceptionOccurs ==
    \/ Raised(trends_env.payload)
    \/ Raised(trends_env.over_time)
    \/ /\ ~SeriesUnusable
       /\ \/ Cardinality(trends_env.over_time.columns \ {"isPartial"}) > 1
          \/ Len(geo_value) <= 2 /\ Raised(trends_env.by_region)
          \/ Raised(trends_env.related)
          \/ /\ KeywordColumn \in DOMAIN trends_env.related
             /\ trends_env.related[KeywordColumn] = None

RequestsSent == {calls[i] : i \in DOMAIN calls}

\* C22: fetch_google_trends never raises; the dict it returns has exactly one
\* of the keys error and df_time: error when the series is empty, lacks the
\* keyword's column, peaks at 0, or an exception occurs, and otherwise
\* df_time with df_region, top_queries and rising_queries.  The by-region
\* request is sent only when the region code has at most two characters.
C22_FetchTrendsContract ==
    TrendsFetched =>
        /\ ~Raised(trends_results_ihp)
        /\ ("error" \in DOMAIN trends_results_ihp) # ("df_time" \in DOMAIN trends_results_ihp)
        /\ ("error" \in DOMAIN trends_results_ihp) <=> (SeriesUnusable \/ TrendsExceptionOccurs)
        /\ "df_time" \in DOMAIN trends_results_ihp =>
              /\ DOMAIN trends_results_ihp
                    = {"df_time", "df_region", "top_queries", "rising_queries"}
              /\ trends_results_ihp.df_time.columns = {"date", "interest"}
        /\ ByRegionCall \in RequestsSent => Len(geo_value) <= 2

\* A region code of five characters: the data come back without the by-region
\* request, although that request would have failed.
C22_Witness ==
    /\ TrendsFetched
    /\ Len(geo_value) = 5
    /\ "df_time" \in DOMAIN trends_results_ihp
    /\ Raised(trends_env.by_region)
    /\ ByRegionCall \notin RequestsSent
    /\ RelatedCall \in RequestsSent
    /\ trends_results_ihp.df_region = EmptyDataFrame

----------------------------------------------------------------------------
(* Properties of main, checked under SpecMain *)

MainReturned == pc = "main returned"

\* A term was submitted: the test of line 527 let the run go on.
Submitted == search_term # <<>>

\* C23: for every submitted term and every outcome of the fetches (TikTok:
\* None, an empty list, videos; Trends: an error dict, data) main gets to
\* calculate_ihp and get_ihp_recommendation and shows the index and the
\* recommendation; the TikTok warning is shown exactly when growth_data is
\* None and the Trends warning exactly when trends_ihp_metrics is None.
C23_AlwaysRendered ==
    /\ pc # "main raised"
    /\ (MainReturned /\ Submitted) =>
          /\ ihp_metrics # None
          /\ IsNumber(Index)
          /\ recommendation # ""
          /\ rendered # None
          /\ rendered.card = Format0f(Index)
          /\ rendered.text = recommendation
          /\ "tiktok" \in warnings <=> growth_data = None
          /\ "trends" \in warnings <=> trends_ihp_metrics = None

\* The endpoint answered without videos and Trends with an error: index 0,
\* both warnings.
C23_Witness ==
    /\ MainReturned
    /\ Submitted
    /\ videos = List(<<>>)
    /\ "error" \in DOMAIN trends_results_ihp
    /\ rendered # None
    /\ rendered.card = 0
    /\ warnings = {"tiktok", "trends"}

\* Every video was fetched with a timestamp, none within the last 60 days.
SocialSeriesOld ==
    /\ Truthy(videos)
    /\ \A i \in DOMAIN df.rows :
          /\ df.rows[i]["create_time"] # NaT
          /\ df.rows[i]["create_time"][1] < datetime_now - HistoricalDays

\* The search series was fetched, none of its observations within the last 60 days.
SearchSeriesOld ==
    /\ "df_time" \in DOMAIN trends_results_ihp
    /\ \A i \in DOMAIN df_trends.rows :
          df_trends.rows[i]["date"][1] < datetime_now - HistoricalDays

C28_DisplayIndependent ==
    (MainReturned /\ prev_run # <<>>) =>
        /\ ihp_metrics # None
        /\ prev_run[1].ihp_total_score = Index
        /\ prev_run[1].recommendation = recommendation

\* The first run's display fetch failed, the rerun's succeeded, and the
\* index is 30 both times.
C28_Witness ==
    /\ MainReturned
    /\ prev_run # <<>>
    /\ prev_run[1].display_failed
    /\ "df_time" \in DOMAIN trends_results_display
    /\ Index = Rat(30, 1)
    /\ prev_run[1].ihp_total_score = Rat(30, 1)

FetchCalls == {calls[i] : i \in {j \in DOMAIN calls : "term" \in DOMAIN calls[j]}}

\* C29 as stated: main fetches only when the term, stripped of surrounding
\* whitespace, is not empty; an input of whitespace only is treated like no
\* input.
C29_NoFetchForBlankTerm ==
    MainReturned =>
        /\ \A c \in FetchCalls : c.term # <<>>
        /\ calls # <<>> => Strip(search_term) # <<>>

====
